---------------------------- MODULE Spec2Model ----------------------------
(***************************************************************************)
(* A model of aiompd: the frame decoder (protocol.py), the response        *)
(* decoders (helpers.py) and the command pipeline of the client            *)
(* (client.py, helpers.py: lock / lock_and_status).                        *)
(*                                                                         *)
(* Bytes and text are sequences of one-character strings, so that          *)
(* startswith / endswith / split act on the characters themselves.         *)
(***************************************************************************)
EXTENDS Integers, Sequences, FiniteSets, TLC

VARIABLES
    \* ---- the client (client.py) ----
    auto_reconnect, \* Client.auto_reconnect
    transport,      \* Client._transport: 0 is None, else a connection id
    status,         \* Client._status: a Status, a raised error, or None
    host,           \* Client._host (and _port): "none" while unset
    locked,         \* Client._lock: the task holding it, 0 when free
    waiters,        \* Client._lock: the tasks queued on it, in order
    queue,          \* Client._received_data: at most one Frame
    \* ---- the connections and their Protocol objects (protocol.py) ----
    conns,          \* connection id -> [open, buf, net, pend, by, nw, na]
    nconn,          \* connections created so far
    \* ---- the coroutines: commands, connect calls, reconnects ----
    tasks,          \* task id -> its record (kind, pc, outcome, ...)
    ntask,          \* tasks created so far
    \* ---- history ----
    unconsumed,     \* command lines written since a Frame was last taken
    statusBy,       \* the task that cached `status` (0: none / cleared)
    lastCall,       \* host of the last connect(host) call made by a caller
    qsrc,           \* where the last Frame put into the queue came from
    \* ---- the decoders applied to drawn inputs ----
    din,            \* the byte sequence drawn
    drest,          \* the bytes of din not yet delivered
    dbuf,           \* Protocol._input_data
    demit,          \* the Frames emitted so far, in order
    dlast,          \* the last delivery: buffer before, bytes, result
    dlines,         \* the lines din was drawn from, by name
    dres            \* what the response decoder returned

vars == << auto_reconnect, transport, status, host, locked, waiters, queue,
           conns, nconn, tasks, ntask, unconsumed, statusBy, lastCall,
           qsrc, din, drest, dbuf, demit, dlast, dlines, dres >>

clientVars == << auto_reconnect, transport, status, host, locked, waiters,
                 queue, conns, nconn, tasks, ntask, unconsumed, statusBy,
                 lastCall, qsrc >>

decVars == << din, drest, dbuf, demit, dlast, dlines, dres >>

----------------------------------------------------------------------------
(* Bounds of the model *)

\* tasks (command invocations, connect calls, reconnects) ever created
MaxTasks == 3
\* connections ever established
MaxConns == 2
\* lines of a drawn decoder input
MaxLines == 3
\* lines of a drawn status response
MaxStatusLines == 4

\* lines of a drawn song listing, its terminator apart
MaxSongLines == 4

----------------------------------------------------------------------------
(* Bytes *)

NL == "\n"

StartsWith(s, p) == Len(s) >= Len(p) /\ SubSeq(s, 1, Len(p)) = p

EndsWith(s, p) ==
    Len(s) >= Len(p) /\ SubSeq(s, Len(s) - Len(p) + 1, Len(s)) = p

\* the element of a one-element set; The({ e : x \in { v } }) is e with x
\* standing for v, v evaluated once
The(S) == CHOOSE r \in S : TRUE

RECURSIVE Concat(_)
Concat(ss) == IF ss = << >> THEN << >> ELSE Head(ss) \o Concat(Tail(ss))

\* str.split(sep) for a one-character separator: the pieces between the
\* separators, an empty piece after a trailing separator included
RECURSIVE SplitOn(_, _, _)
SplitOn(s, sep, cur) ==
    IF s = << >> THEN << cur >>
    ELSE IF Head(s) = sep THEN << cur >> \o SplitOn(Tail(s), sep, << >>)
    ELSE SplitOn(Tail(s), sep, Append(cur, Head(s)))

Split(s, sep) == SplitOn(s, sep, << >>)

\* the index where the first occurrence of p starts in s, 0 when none
RECURSIVE FindFrom(_, _, _)
FindFrom(s, p, i) ==
    IF i + Len(p) - 1 > Len(s) THEN 0
    ELSE IF SubSeq(s, i, i + Len(p) - 1) = p THEN i
    ELSE FindFrom(s, p, i + 1)

Find(s, p) == FindFrom(s, p, 1)

\* the index where the last occurrence of p starts in s, 0 when none
RECURSIVE RFindFrom(_, _, _)
RFindFrom(s, p, i) ==
    IF i < 1 THEN 0
    ELSE IF SubSeq(s, i, i + Len(p) - 1) = p THEN i
    ELSE RFindFrom(s, p, i - 1)

RFind(s, p) == RFindFrom(s, p, Len(s) - Len(p) + 1)

\* line.split(sep, 1): one piece when sep does not occur, else two
Split1(s, sep) ==
    LET i == Find(s, sep)
    IN  IF i = 0 THEN << s >>
        ELSE << SubSeq(s, 1, i - 1), SubSeq(s, i + Len(sep), Len(s)) >>

\* s.rsplit(sep, 1)
RSplit1(s, sep) ==
    LET i == RFind(s, sep)
    IN  IF i = 0 THEN << s >>
        ELSE << SubSeq(s, 1, i - 1), SubSeq(s, i + Len(sep), Len(s)) >>

\* s.split(sep, 2): at most three pieces
Split2(s, sep) ==
    LET a == Split1(s, sep)
    IN  IF Len(a) = 1 THEN a ELSE << a[1] >> \o Split1(a[2], sep)

Whitespace == { " ", NL }

\* bytes.strip()
RECURSIVE LStrip(_)
LStrip(s) ==
    IF s # << >> /\ Head(s) \in Whitespace THEN LStrip(Tail(s)) ELSE s

RECURSIVE RStrip(_)
RStrip(s) ==
    IF s # << >> /\ s[Len(s)] \in Whitespace
    THEN RStrip(SubSeq(s, 1, Len(s) - 1)) ELSE s

Strip(s) == RStrip(LStrip(s))

Digits == { "0", "1", "2", "3", "4", "5", "6", "7", "8", "9" }

DigitVal(c) ==
    CASE c = "0" -> 0 [] c = "1" -> 1 [] c = "2" -> 2 [] c = "3" -> 3
      [] c = "4" -> 4 [] c = "5" -> 5 [] c = "6" -> 6 [] c = "7" -> 7
      [] c = "8" -> 8 [] c = "9" -> 9

IsDigits(s) == s # << >> /\ \A i \in 1..Len(s) : s[i] \in Digits

RECURSIVE DigitsVal(_, _)
DigitsVal(s, acc) ==
    IF s = << >> THEN acc
    ELSE DigitsVal(Tail(s), 10 * acc + DigitVal(Head(s)))

\* int(v) on text: the value of a digit string.  Every other text drawn
\* in this model (letters, dots, empty) makes int raise ValueError.
IntOk(s) == IsDigits(s)
IntVal(s) == DigitsVal(s, 0)

----------------------------------------------------------------------------
(* Wire texts *)

OKLine == << "O", "K", NL >>
OKPrefix == << "O", "K" >>
ACKPrefix == << "A", "C", "K", " ", "[" >>
ColonSpace == << ":", " " >>
\* "ACK [5@0] {p} e\n"
ACKLine == << "A", "C", "K", " ", "[", "5", "@", "0", "]", " ",
              "{", "p", "}", " ", "e", NL >>
\* "OK MPD 0.19.0\n"
Greeting == << "O", "K", " ", "M", "P", "D", " ",
               "0", ".", "1", "9", ".", "0", NL >>
\* "OK MPD\n": a greeting without a version
BadGreeting == << "O", "K", " ", "M", "P", "D", NL >>


----------------------------------------------------------------------------
(* Frames: what Protocol.data_received puts into Client._received_data *)

BytesItem(data) == [ kind |-> "bytes", data |-> data ]

\* ExceptionQueueItem(data)
ExcItem(data) == [ kind |-> "exc", data |-> data ]

\* the end-of-response test without its first disjunct: only the 'OK\n'
\* suffix ends a response
FrameComplete_SuffixOnly(b) == b = OKLine \/ EndsWith(b, OKLine)

\* protocol.py 28-30: the test that ends a response
\*   startswith(b"OK") and last byte == "\n"   or   endswith(b"OK\n")
FrameComplete(b) ==
    \/ StartsWith(b, OKPrefix) /\ b[Len(b)] = NL
    \/ EndsWith(b, OKLine)

\* protocol.py 22: the test that takes a delivery as an error reply
IsErrorReply(input_data, data) ==
    input_data = << >> /\ StartsWith(data, ACKPrefix)

\* a data_received that replaces the buffer by the delivery instead of
\* appending to it, and never finds the queue full
data_received_Assign(input_data, full, data) ==
    IF IsErrorReply(input_data, data)
    THEN [ buf |-> << >>, put |-> << ExcItem(data) >>, raised |-> FALSE ]
    ELSE IF FrameComplete(data)
    THEN [ buf |-> << >>, put |-> << BytesItem(data) >>, raised |-> FALSE ]
    ELSE [ buf |-> data, put |-> << >>, raised |-> FALSE ]

\* Protocol.data_received on buffer input_data, with `full` saying whether
\* the queue already holds a Frame.  put_nowait raises QueueFull on a full
\* queue, before the buffer is cleared (protocol.py 23-24, 31-32).
\*   buf: _input_data afterwards;  put: the Frames put (none or one);
\*   raised: whether QueueFull left the callback
data_received(input_data, full, data) ==
    IF IsErrorReply(input_data, data)
    THEN IF full
         THEN [ buf |-> input_data, put |-> << >>, raised |-> TRUE ]
         ELSE [ buf |-> << >>, put |-> << ExcItem(data) >>,
                raised |-> FALSE ]
    ELSE LET b == input_data \o data
         IN  IF FrameComplete(b)
             THEN IF full
                  THEN [ buf |-> b, put |-> << >>, raised |-> TRUE ]
                  ELSE [ buf |-> << >>, put |-> << BytesItem(b) >>,
                         raised |-> FALSE ]
             ELSE [ buf |-> b, put |-> << >>, raised |-> FALSE ]

----------------------------------------------------------------------------
(* Response decoders (helpers.py) *)

None == [ t |-> "none" ]
StrV(s) == [ t |-> "str", s |-> s ]
IntV(n) == [ t |-> "int", n |-> n ]
BoolV(b) == [ t |-> "bool", b |-> b ]
\* an exception leaving a call
Raised(e) == [ t |-> "raised", e |-> e ]

\* types.py 6-11: the fields of Status, by the cast helpers.py applies
StrFields == { "state", "time", "elapsed", "bitrate", "mixrampdb",
               "mixrampdelay", "audio", "error" }
BoolFields == { "repeat", "random", "single", "consume" }
IntFields == { "volume", "playlist", "playlistlength", "song", "songid",
               "nextsong", "nextsongid", "duration", "xfade",
               "updating_db" }
StatusFields == StrFields \cup BoolFields \cup IntFields

\* the characters of a field's name, as it is looked up in the response
FieldKey(f) ==
    CASE f = "state" -> << "s", "t", "a", "t", "e" >>
      [] f = "time" -> << "t", "i", "m", "e" >>
      [] f = "elapsed" -> << "e", "l", "a", "p", "s", "e", "d" >>
      [] f = "bitrate" -> << "b", "i", "t", "r", "a", "t", "e" >>
      [] f = "mixrampdb" -> << "m", "i", "x", "r", "a", "m", "p", "d", "b" >>
      [] f = "mixrampdelay" ->
            << "m", "i", "x", "r", "a", "m", "p", "d", "e", "l", "a", "y" >>
      [] f = "audio" -> << "a", "u", "d", "i", "o" >>
      [] f = "error" -> << "e", "r", "r", "o", "r" >>
      [] f = "repeat" -> << "r", "e", "p", "e", "a", "t" >>
      [] f = "random" -> << "r", "a", "n", "d", "o", "m" >>
      [] f = "single" -> << "s", "i", "n", "g", "l", "e" >>
      [] f = "consume" -> << "c", "o", "n", "s", "u", "m", "e" >>
      [] f = "volume" -> << "v", "o", "l", "u", "m", "e" >>
      [] f = "playlist" -> << "p", "l", "a", "y", "l", "i", "s", "t" >>
      [] f = "playlistlength" ->
            << "p", "l", "a", "y", "l", "i", "s", "t",
               "l", "e", "n", "g", "t", "h" >>
      [] f = "song" -> << "s", "o", "n", "g" >>
      [] f = "songid" -> << "s", "o", "n", "g", "i", "d" >>
      [] f = "nextsong" -> << "n", "e", "x", "t", "s", "o", "n", "g" >>
      [] f = "nextsongid" ->
            << "n", "e", "x", "t", "s", "o", "n", "g", "i", "d" >>
      [] f = "duration" -> << "d", "u", "r", "a", "t", "i", "o", "n" >>
      [] f = "xfade" -> << "x", "f", "a", "d", "e" >>
      [] f = "updating_db" ->
            << "u", "p", "d", "a", "t", "i", "n", "g", "_", "d", "b" >>

\* helpers.py 46-47:  v != '0' if v else None   (v: None or text)
str_bool(v) ==
    IF v = None \/ v.s = << >> THEN None ELSE BoolV(v.s # << "0" >>)

\* a _str_int that gives 0 instead of None for a missing or empty value
str_int_ZeroDefault(v) ==
    IF v = None \/ v.s = << >> THEN IntV(0)
    ELSE IF IntOk(v.s) THEN IntV(IntVal(v.s)) ELSE Raised("ValueError")

\* helpers.py 50-51:  int(v) if v else None ; ValueError when int raises
str_int(v) ==
    IF v = None \/ v.s = << >> THEN None
    ELSE IF IntOk(v.s) THEN IntV(IntVal(v.s)) ELSE Raised("ValueError")

\* helpers.py 55: raw.split('\n')[:-2]
StatusLinesOf(raw) ==
    LET ls == Split(raw, NL) IN SubSeq(ls, 1, Len(ls) - 2)

\* dict.get(key) on dict(pairs): the value of the last pair with that key
DictGet(pairs, key) ==
    LET hits == { i \in 1..Len(pairs) : pairs[i][1] = key }
    IN  IF hits = { } THEN None
        ELSE StrV(pairs[CHOOSE i \in hits : \A j \in hits : j <= i][2])

\* helpers.py 54-84: status_from_raw.  dict() raises ValueError on a line
\* that has no ': ' (a one-element split); int() raises ValueError on a
\* value that is no number.  Otherwise the Status, field by field.
status_from_raw(raw) ==
  The({
    LET pairs == [ i \in 1..Len(lines) |-> Split1(lines[i], ColonSpace) ]
        cast(f) == IF f \in StrFields THEN DictGet(pairs, FieldKey(f))
                   ELSE IF f \in BoolFields
                   THEN str_bool(DictGet(pairs, FieldKey(f)))
                   ELSE str_int(DictGet(pairs, FieldKey(f)))
    IN  IF \E i \in 1..Len(pairs) : Len(pairs[i]) # 2
        THEN [ ok |-> FALSE, err |-> "ValueError" ]
        ELSE IF \E f \in IntFields : cast(f) = Raised("ValueError")
        THEN [ ok |-> FALSE, err |-> "ValueError" ]
        ELSE [ ok |-> TRUE, st |-> [ f \in StatusFields |-> cast(f) ] ]
    : lines \in { StatusLinesOf(raw) } })

\* client.py 86-92: the greeting taken from the queue, parsed.
\*   welcome.strip() on an ExceptionQueueItem raises AttributeError;
\*   rsplit(' ', 1)[1] raises IndexError without a space;
\*   int(i) raises ValueError; Version(*...) needs exactly three numbers.
parse_welcome(item) ==
    IF item.kind # "bytes" THEN [ ok |-> FALSE, err |-> "AttributeError" ]
    ELSE The({
         IF Len(parts) < 2 THEN [ ok |-> FALSE, err |-> "IndexError" ]
         ELSE The({
              IF \E i \in 1..Len(nums) : ~IntOk(nums[i])
              THEN [ ok |-> FALSE, err |-> "ValueError" ]
              ELSE IF Len(nums) # 3
              THEN [ ok |-> FALSE, err |-> "TypeError" ]
              ELSE [ ok |-> TRUE,
                     version |-> [ i \in 1..3 |-> IntVal(nums[i]) ] ]
              : nums \in { Split2(parts[2], << "." >>) } })
         : parts \in { RSplit1(Strip(item.data), << " " >>) } })


\* the keys song_from_raw reads, and the terminator line of a listing
FileKey == << "f", "i", "l", "e" >>
TitleKey == << "T", "i", "t", "l", "e" >>
NameKey == << "N", "a", "m", "e" >>
PosKey == << "P", "o", "s" >>
IdKey == << "I", "d" >>
OKWord == << "O", "K" >>

\* a song_from_raw that casts a missing or empty Pos / Id to 0
SongInt_ZeroDefault(v) ==
    IF v = None \/ v.s = << >> THEN IntV(0)
    ELSE IF IntOk(v.s) THEN IntV(IntVal(v.s)) ELSE Raised("ValueError")

\* helpers.py 121-122:  int(raw['Pos']) if raw.get('Pos') else None
SongInt(v) ==
    IF v = None \/ v.s = << >> THEN None
    ELSE IF IntOk(v.s) THEN IntV(IntVal(v.s)) ELSE Raised("ValueError")

\* helpers.py 116-123: song_from_raw on a dict, given as the pairs set on
\* it in order; ValueError when int() raises
song_from_raw(pairs) ==
    LET pos == SongInt(DictGet(pairs, PosKey))
        id == SongInt(DictGet(pairs, IdKey))
    IN  IF pos = Raised("ValueError") \/ id = Raised("ValueError")
        THEN Raised("ValueError")
        ELSE [ t |-> "song",
               file |-> DictGet(pairs, FileKey),
               title |-> DictGet(pairs, TitleKey),
               name |-> DictGet(pairs, NameKey),
               pos |-> pos,
               id |-> id ]

\* `current` before the first 'file' line
NoCurrent == [ set |-> FALSE, pairs |-> << >> ]

\* helpers.py 93-111: the loop over the lines from line i on, with the
\* songs appended so far and `current`.
\*   'OK' ends the scan (flushing current); a line without ': ' raises
\*   ValueError at the unpacking; a 'file' line flushes current and starts
\*   a new dict; any other key set on current = None raises TypeError; the
\*   lines running out raises RuntimeError (the for ... else).
RECURSIVE ScanSongs(_, _, _, _)
ScanSongs(lines, i, res, current) ==
    IF i > Len(lines) THEN [ ok |-> FALSE, err |-> "RuntimeError" ]
    ELSE
      LET line == lines[i]
          kv == Split1(line, ColonSpace)
          flushed == IF current.set /\ current.pairs # << >>
                     THEN << song_from_raw(current.pairs) >>
                     ELSE << >>
          bad == flushed # << >> /\ flushed[1] = Raised("ValueError")
      IN  IF line = OKWord
          THEN IF bad THEN [ ok |-> FALSE, err |-> "ValueError" ]
               ELSE [ ok |-> TRUE, songs |-> res \o flushed ]
          ELSE IF Len(kv) # 2 THEN [ ok |-> FALSE, err |-> "ValueError" ]
          ELSE IF kv[1] = FileKey
          THEN IF bad THEN [ ok |-> FALSE, err |-> "ValueError" ]
               ELSE ScanSongs(lines, i + 1, res \o flushed,
                              [ set |-> TRUE, pairs |-> << kv, kv >> ])
          ELSE IF ~current.set THEN [ ok |-> FALSE, err |-> "TypeError" ]
          ELSE ScanSongs(lines, i + 1, res,
                         [ current EXCEPT !.pairs = Append(@, kv) ])

\* helpers.py 87-113: songs_list_from_raw
songs_list_from_raw(raw) == ScanSongs(Split(raw, NL), 1, << >>, NoCurrent)

\* a byte that is not valid UTF-8 (0xff): data.decode('utf8') raises
\* UnicodeDecodeError on bytes that hold it
BadByte == "xFF"

DecodeOk(data) == \A i \in 1..Len(data) : data[i] # BadByte

\* the length of the run of digits a text begins with: what \d+ takes
LeadingDigits(s) ==
    CHOOSE k \in 0..Len(s) :
        /\ \A i \in 1..k : s[i] \in Digits
        /\ k = Len(s) \/ s[k + 1] \notin Digits

\* helpers.py 127, 138: RE.match(text) for
\*   ^ACK \[(\d+)@(\d+)\] \{(.+)\} (.+)$
\* '.' takes no newline, and the first (.+) is greedy: it ends at the last
\* '} ' that leaves something for the second one.
REMatch(text) ==
    LET no == [ ok |-> FALSE ]
        r1 == SubSeq(text, 6, Len(text))
        n1 == LeadingDigits(r1)
        r2 == SubSeq(r1, n1 + 2, Len(r1))
        n2 == LeadingDigits(r2)
        r3 == SubSeq(r2, n2 + 1, Len(r2))
        sep == << "]", " ", "{" >>
        R == SubSeq(r3, 4, Len(r3))
        cuts == { i \in 2..(Len(R) - 2) : R[i] = "}" /\ R[i + 1] = " " }
        cut == CHOOSE i \in cuts : \A j \in cuts : j <= i
    IN  IF ~StartsWith(text, ACKPrefix) THEN no
        ELSE IF n1 = 0 \/ n1 = Len(r1) \/ r1[n1 + 1] # "@" THEN no
        ELSE IF n2 = 0 \/ ~StartsWith(r3, sep) THEN no
        ELSE IF (\E i \in 1..Len(R) : R[i] = NL) \/ cuts = { } THEN no
        ELSE [ ok |-> TRUE,
               g1 |-> SubSeq(r1, 1, n1),
               g2 |-> SubSeq(r2, 1, n2),
               g3 |-> SubSeq(R, 1, cut - 1),
               g4 |-> SubSeq(R, cut + 2, Len(R)) ]

\* a _set_not_parsed that leaves the text as it is
set_not_parsed_KeepText(item) ==
    [ item EXCEPT !.error = None, !.command_listNum = None,
                  !.command = None, !.message = None ]

\* helpers.py 148-153: ExceptionQueueItem._set_not_parsed
set_not_parsed(item) ==
    [ item EXCEPT !.text = None, !.error = None, !.command_listNum = None,
                  !.command = None, !.message = None ]

\* helpers.py 129-146: ExceptionQueueItem(data), as the attributes of the
\* exception built; args is what Exception.__init__ keeps (helpers.py 130)
ExceptionQueueItem(data) ==
    LET new == [ t |-> "exc", args |-> data, text |-> None, error |-> None,
                 command_listNum |-> None, command |-> None,
                 message |-> None ]
        text == Strip(data)
        parsed == REMatch(text)
    IN  IF ~DecodeOk(data) THEN set_not_parsed(new)
        ELSE IF ~parsed.ok
        THEN set_not_parsed([ new EXCEPT !.text = StrV(text) ])
        ELSE [ new EXCEPT !.text = StrV(text),
                          !.error = IntV(IntVal(parsed.g1)),
                          !.command_listNum = IntV(IntVal(parsed.g2)),
                          !.command = StrV(parsed.g3),
                          !.message = StrV(parsed.g4) ]

----------------------------------------------------------------------------
(* The state after Client() (client.py 21-31), before any call *)

\* no Frame has been put yet
NoSource == [ conn |-> 0, line |-> 0 ]

ClientInit ==
    /\ auto_reconnect \in BOOLEAN
    /\ transport = 0
    /\ status = None
    /\ host = "none"
    /\ locked = 0
    /\ waiters = << >>
    /\ queue = << >>
    /\ conns = << >>
    /\ nconn = 0
    /\ tasks = << >>
    /\ ntask = 0
    /\ unconsumed = 0
    /\ statusBy = 0
    /\ lastCall = "none"
    /\ qsrc = NoSource

\* a client that takes no step: the decoders are applied on their own
ClientOff ==
    /\ auto_reconnect = TRUE
    /\ transport = 0
    /\ status = None
    /\ host = "none"
    /\ locked = 0
    /\ waiters = << >>
    /\ queue = << >>
    /\ conns = << >>
    /\ nconn = 0
    /\ tasks = << >>
    /\ ntask = 0
    /\ unconsumed = 0
    /\ statusBy = 0
    /\ lastCall = "none"
    /\ qsrc = NoSource

\* no decoder input drawn: the client runs on its own
DecOff ==
    /\ din = << >>
    /\ drest = << >>
    /\ dbuf = << >>
    /\ demit = << >>
    /\ dlast = [ before |-> << >>, data |-> << >>, put |-> << >> ]
    /\ dlines = << >>
    /\ dres = None

SeqsUpTo(S, n) == UNION { [ 1..k -> S ] : k \in 0..n }

----------------------------------------------------------------------------
(* The frame decoder on drawn byte streams, in every chunking *)

DecLineNames == { "ok", "kv", "kvok", "okkv", "ack" }

DecLine(name) ==
    CASE name = "ok"   -> OKLine
      [] name = "kv"   -> << "a", ":", " ", "b", NL >>
      [] name = "kvok" -> << "a", ":", " ", "O", "K", NL >>
      [] name = "okkv" -> << "O", "K", "a", ":", " ", "b", NL >>
      [] name = "ack"  -> << "A", "C", "K", " ", "[", "e", NL >>

DecText(names) == Concat([ i \in 1..Len(names) |-> DecLine(names[i]) ])

DecInit ==
    /\ ClientOff
    /\ dlines \in SeqsUpTo(DecLineNames, MaxLines)
    /\ din = DecText(dlines)
    /\ drest = din
    /\ dbuf = << >>
    /\ demit = << >>
    /\ dlast = [ before |-> << >>, data |-> << >>, put |-> << >> ]
    /\ dres = None

\* one call of data_received with the next n bytes of the stream; the
\* Frame it puts is taken from the queue at once
DecDeliver ==
    \E n \in 1..Len(drest) :
        LET data == SubSeq(drest, 1, n)
            r == data_received(dbuf, FALSE, data)
        IN  /\ drest' = SubSeq(drest, n + 1, Len(drest))
            /\ dbuf' = r.buf
            /\ demit' = demit \o r.put
            /\ dlast' = [ before |-> dbuf, data |-> data, put |-> r.put ]
            /\ UNCHANGED << din, dlines, dres >>
            /\ UNCHANGED clientVars

DecNext == DecDeliver

SpecDecoder == DecInit /\ [][DecNext]_vars

----------------------------------------------------------------------------
(* status_from_raw on drawn status responses *)

StatusLineNames == { "volume50", "volume7", "volumeEmpty", "repeat1",
                     "repeat0", "statePlay", "blank" }

StatusLine(name) ==
    CASE name = "volume50" ->
            << "v", "o", "l", "u", "m", "e", ":", " ", "5", "0", NL >>
      [] name = "volume7" ->
            << "v", "o", "l", "u", "m", "e", ":", " ", "7", NL >>
      [] name = "volumeEmpty" ->
            << "v", "o", "l", "u", "m", "e", ":", " ", NL >>
      [] name = "repeat1" ->
            << "r", "e", "p", "e", "a", "t", ":", " ", "1", NL >>
      [] name = "repeat0" ->
            << "r", "e", "p", "e", "a", "t", ":", " ", "0", NL >>
      [] name = "statePlay" ->
            << "s", "t", "a", "t", "e", ":", " ", "p", "l", "a", "y", NL >>
      [] name = "blank" -> << NL >>

StatusText(names) ==
    Concat([ i \in 1..Len(names) |-> StatusLine(names[i]) ]) \o OKLine

Pending == [ t |-> "pending" ]

StatusInit ==
    /\ ClientOff
    /\ dlines \in SeqsUpTo(StatusLineNames, MaxStatusLines)
    /\ din = StatusText(dlines)
    /\ drest = << >>
    /\ dbuf = << >>
    /\ demit = << >>
    /\ dlast = [ before |-> << >>, data |-> << >>, put |-> << >> ]
    /\ dres = Pending

\* client.py 119-120: the Frame's text handed to status_from_raw
StatusDecode ==
    /\ dres = Pending
    /\ dres' = status_from_raw(din)
    /\ UNCHANGED << din, drest, dbuf, demit, dlast, dlines >>
    /\ UNCHANGED clientVars

StatusNext == StatusDecode

SpecStatus == StatusInit /\ [][StatusNext]_vars


----------------------------------------------------------------------------
(* Claims about the frame decoder (SpecDecoder) *)

\* the drawn stream is a valid Success response: 'Key: Value\n' lines,
\* then 'OK\n'
ValidSuccess ==
    /\ Len(dlines) >= 1
    /\ dlines[Len(dlines)] = "ok"
    /\ \A i \in 1..(Len(dlines) - 1) : dlines[i] \in { "kv", "kvok", "okkv" }

\* no delivery boundary inside the response looks like its end: no line
\* before the last ends in 'OK', and the response begins with 'OK' only
\* when it is 'OK\n' itself
NoInnerEnd ==
    /\ \A i \in 1..(Len(dlines) - 1) : dlines[i] # "kvok"
    /\ Len(dlines) >= 2 => dlines[1] # "okkv"

\* the bytes accumulated by the last delivery
DLastAcc == dlast.before \o dlast.data

\* the last delivery did not take the 'ACK [' rule
DLastAppended ==
    /\ dlast.data # << >>
    /\ ~(dlast.before = << >> /\ Len(dlast.data) >= 5
         /\ SubSeq(dlast.data, 1, 5) = << "A", "C", "K", " ", "[" >>)

----------------------------------------------------------------------------
(* Claims about status_from_raw (SpecStatus) *)

\* what each drawn line says: the field it names and the typed value of
\* its text (an empty value is null)
StatusLineField(name) ==
    CASE name \in { "volume50", "volume7", "volumeEmpty" } -> "volume"
      [] name \in { "repeat1", "repeat0" } -> "repeat"
      [] name = "statePlay" -> "state"
      [] name = "blank" -> "(none)"

StatusLineValue(name) ==
    CASE name = "volume50" -> IntV(50)
      [] name = "volume7" -> IntV(7)
      [] name = "volumeEmpty" -> None
      [] name = "repeat1" -> BoolV(TRUE)
      [] name = "repeat0" -> BoolV(FALSE)
      [] name = "statePlay" -> StrV(<< "p", "l", "a", "y" >>)
      [] name = "blank" -> None

\* the value a field should decode to: that of the last line naming it,
\* null when no line names it
ExpectedField(names, f) ==
    LET hits == { i \in 1..Len(names) : StatusLineField(names[i]) = f }
    IN  IF hits = { } THEN None
        ELSE StatusLineValue(names[CHOOSE i \in hits : \A j \in hits : j <= i])

DecodedAsExpected(names) ==
    /\ dres.ok
    /\ \A f \in StatusFields : dres.st[f] = ExpectedField(names, f)

\* C10 as stated: 'key: value' lines, then a blank line, then 'OK\n' decode
\* to the snapshot holding each present field's typed value and null for
\* every absent field.
C10_BlankLineThenOK ==
    ( /\ dres # Pending
      /\ Len(dlines) >= 2
      /\ dlines[Len(dlines)] = "blank"
      /\ \A i \in 1..(Len(dlines) - 1) : dlines[i] # "blank" )
    => DecodedAsExpected(SubSeq(dlines, 1, Len(dlines) - 1))

\* C10, amended: 'key: value' lines directly followed by 'OK\n' (no blank
\* line) decode to the snapshot holding, for each field present, the typed
\* value of its last line (null when that value is empty) and null for
\* every absent field.
C10_StatusDecode ==
    ( /\ dres # Pending
      /\ \A i \in 1..Len(dlines) : dlines[i] # "blank" )
    => DecodedAsExpected(dlines)

\* C10's case: volume, repeat and state decoded, the rest null
C10_Witness ==
    /\ dlines = << "volume50", "repeat1", "statePlay" >>
    /\ dres # Pending
    /\ dres.ok
    /\ dres.st["volume"] = IntV(50)
    /\ dres.st["repeat"] = BoolV(TRUE)
    /\ dres.st["state"] = StrV(<< "p", "l", "a", "y" >>)
    /\ dres.st["song"] = None
    /\ dres.st["random"] = None


----------------------------------------------------------------------------
(* songs_list_from_raw on drawn song listings *)

SongLineNames == { "fileA", "fileB", "titleT", "titleU", "nameN",
                   "pos1", "posEmpty", "posX", "id2", "blank" }

SongLine(name) ==
    CASE name = "fileA" -> << "f", "i", "l", "e", ":", " ", "a", NL >>
      [] name = "fileB" -> << "f", "i", "l", "e", ":", " ", "b", NL >>
      [] name = "titleT" -> << "T", "i", "t", "l", "e", ":", " ", "t", NL >>
      [] name = "titleU" -> << "T", "i", "t", "l", "e", ":", " ", "u", NL >>
      [] name = "nameN" -> << "N", "a", "m", "e", ":", " ", "n", NL >>
      [] name = "pos1" -> << "P", "o", "s", ":", " ", "1", NL >>
      [] name = "posEmpty" -> << "P", "o", "s", ":", " ", NL >>
      [] name = "posX" -> << "P", "o", "s", ":", " ", "x", NL >>
      [] name = "id2" -> << "I", "d", ":", " ", "2", NL >>
      [] name = "blank" -> << NL >>

SongText(names) == Concat([ i \in 1..Len(names) |-> SongLine(names[i]) ])

\* how a drawn listing ends: with the line 'OK', without it, or without it
\* and without the last newline
SongEnds == { "ok", "none", "nonl" }

SongRaw(names, end) ==
    LET text == SongText(names)
    IN  CASE end = "ok" -> text \o OKLine
          [] end = "none" -> text
          [] end = "nonl" -> IF text = << >> THEN text
                             ELSE SubSeq(text, 1, Len(text) - 1)

SongsInit ==
    /\ ClientOff
    /\ dlines \in SeqsUpTo(SongLineNames, MaxSongLines)
    /\ \E end \in SongEnds : din = SongRaw(dlines, end)
    /\ drest = << >>
    /\ dbuf = << >>
    /\ demit = << >>
    /\ dlast = [ before |-> << >>, data |-> << >>, put |-> << >> ]
    /\ dres = Pending

\* client.py 263-264: the Frame handed to songs_list_from_raw
SongsDecode ==
    /\ dres = Pending
    /\ dres' = songs_list_from_raw(din)
    /\ UNCHANGED << din, drest, dbuf, demit, dlast, dlines >>
    /\ UNCHANGED clientVars

SongsNext == SongsDecode

SpecSongs == SongsInit /\ [][SongsNext]_vars

----------------------------------------------------------------------------
(* Claims about songs_list_from_raw (SpecSongs) *)

IsFileLine(name) == name \in { "fileA", "fileB" }

\* the attribute a drawn line sets, and the value the record is to hold
SongLineField(name) ==
    CASE name \in { "fileA", "fileB" } -> "file"
      [] name \in { "titleT", "titleU" } -> "title"
      [] name = "nameN" -> "name"
      [] name \in { "pos1", "posEmpty", "posX" } -> "pos"
      [] name = "id2" -> "id"
      [] OTHER -> "none"

SongLineValue(name) ==
    CASE name = "fileA" -> StrV(<< "a" >>)
      [] name = "fileB" -> StrV(<< "b" >>)
      [] name = "titleT" -> StrV(<< "t" >>)
      [] name = "titleU" -> StrV(<< "u" >>)
      [] name = "nameN" -> StrV(<< "n" >>)
      [] name = "pos1" -> IntV(1)
      [] name = "id2" -> IntV(2)
      [] OTHER -> None

\* a listing as the claims mean it: blocks that start with a 'file' line,
\* made of 'file', Title, Name, Pos and Id lines, Pos and Id being numbers
\* or empty
IsListing(names) ==
    /\ names # << >> => IsFileLine(names[1])
    /\ \A i \in 1..Len(names) : names[i] \notin { "blank", "posX" }

\* where the blocks of a listing start, and the lines of its k-th block
BlockStarts(names) == { i \in 1..Len(names) : IsFileLine(names[i]) }

BlockStart(names, k) ==
    CHOOSE i \in BlockStarts(names) :
        Cardinality({ j \in BlockStarts(names) : j <= i }) = k

BlockLines(names, k) ==
    { i \in 1..Len(names) :
        /\ i >= BlockStart(names, k)
        /\ \A j \in BlockStarts(names) : j > BlockStart(names, k) => i < j }

ExpectedSongField(names, k, f) ==
    LET hits == { i \in BlockLines(names, k) : SongLineField(names[i]) = f }
    IN  IF hits = { } THEN None
        ELSE SongLineValue(names[CHOOSE i \in hits : \A j \in hits : j <= i])

ExpectedSong(names, k) ==
    [ t |-> "song",
      file |-> ExpectedSongField(names, k, "file"),
      title |-> ExpectedSongField(names, k, "title"),
      name |-> ExpectedSongField(names, k, "name"),
      pos |-> ExpectedSongField(names, k, "pos"),
      id |-> ExpectedSongField(names, k, "id") ]

\* C11: a listing of N blocks ended by the line 'OK' decodes to exactly N
\* songs, in input order, the k-th holding the file and the attributes of
\* the k-th block (null for those the block does not give) and nothing of
\* another block.
C11_SongsInOrder ==
    ( /\ dres # Pending
      /\ IsListing(dlines)
      /\ din = SongRaw(dlines, "ok") )
    => /\ dres.ok
       /\ Len(dres.songs) = Cardinality(BlockStarts(dlines))
       /\ \A k \in 1..Len(dres.songs) :
             dres.songs[k] = ExpectedSong(dlines, k)

\* C11's case: two blocks, the first with a title only, the second with a
\* position only
C11_Witness ==
    /\ dlines = << "fileA", "titleT", "fileB", "pos1" >>
    /\ din = SongRaw(dlines, "ok")
    /\ dres # Pending
    /\ dres.ok
    /\ Len(dres.songs) = 2
    /\ dres.songs[1].file = StrV(<< "a" >>)
    /\ dres.songs[1].title = StrV(<< "t" >>)
    /\ dres.songs[1].pos = None
    /\ dres.songs[2].file = StrV(<< "b" >>)
    /\ dres.songs[2].title = None
    /\ dres.songs[2].pos = IntV(1)

\* no line of the text is the terminator 'OK'
NoOKLine(raw) ==
    \A i \in 1..Len(Split(raw, NL)) : Split(raw, NL)[i] # OKWord

\* C12: a listing without its 'OK' line, with or without a final newline,
\* fails with the error raised when the lines run out (RuntimeError): it
\* gives no list and no other error.
C12_MissingOKFails ==
    ( /\ dres # Pending
      /\ IsListing(dlines)
      /\ dlines # << >>
      /\ NoOKLine(din) )
    => dres = [ ok |-> FALSE, err |-> "RuntimeError" ]

----------------------------------------------------------------------------
(* ExceptionQueueItem on drawn error lines *)

\* an error line is drawn part by part:
\*   'ACK [' code '@' index '] {' command '} ' message end
ErrCodes == { << "5" >>, << "x" >>, << >> }
ErrIndexes == { << "0" >>, << >> }
ErrCommands == { << "p" >>, << >>, << "p", "}", " ", "q" >> }
ErrMessages == { << "e" >>, << >>, << "e", " ", "e" >>, << "e", NL, "f" >>,
                 << BadByte >> }
ErrEnds == { << NL >>, << >> }

ErrText(parts) ==
    ACKPrefix \o parts[1] \o << "@" >> \o parts[2] \o << "]", " ", "{" >>
        \o parts[3] \o << "}", " " >> \o parts[4] \o parts[5]

ErrorInit ==
    /\ ClientOff
    /\ dlines \in { << c, i, k, m, e >> :
                       c \in ErrCodes, i \in ErrIndexes, k \in ErrCommands,
                       m \in ErrMessages, e \in ErrEnds }
    /\ din = ErrText(dlines)
    /\ drest = << >>
    /\ dbuf = << >>
    /\ demit = << >>
    /\ dlast = [ before |-> << >>, data |-> << >>, put |-> << >> ]
    /\ dres = Pending

\* protocol.py 23: the error reply handed to ExceptionQueueItem
ErrorDecode ==
    /\ dres = Pending
    /\ dres' = ExceptionQueueItem(din)
    /\ UNCHANGED << din, drest, dbuf, demit, dlast, dlines >>
    /\ UNCHANGED clientVars

ErrorNext == ErrorDecode

SpecError == ErrorInit /\ [][ErrorNext]_vars

----------------------------------------------------------------------------
(* Claims about ExceptionQueueItem (SpecError) *)

\* the drawn lines that have the form
\*   ACK [<code>@<index>] {<command>} <message>
\* (with an empty message, the command 'p} q' still leaves 'p' as the
\* command and 'q}' as the message)
ErrWellFormed(parts) ==
    /\ parts[1] = << "5" >>
    /\ parts[2] = << "0" >>
    /\ \/ /\ parts[3] # << >>
          /\ parts[4] \in { << "e" >>, << "e", " ", "e" >> }
       \/ /\ parts[3] = << "p", "}", " ", "q" >>
          /\ parts[4] = << >>

StructuredUnset ==
    /\ dres.error = None
    /\ dres.command_listNum = None
    /\ dres.command = None
    /\ dres.message = None

\* C13 as stated: for an error line that has not the form (or is not
\* UTF-8) the fault is built, its raw text is populated, and code, command
\* index, command and message are unset.
C13_RawTextKept ==
    (dres # Pending /\ ~ErrWellFormed(dlines))
    => /\ dres.t = "exc"
       /\ dres.text # None
       /\ StructuredUnset

\* C13, amended: for such a line the fault is built, code, command index,
\* command and message are unset, and so is its text; the received bytes
\* are kept only as the argument of the exception.
C13_NotParsed ==
    (dres # Pending /\ ~ErrWellFormed(dlines))
    => /\ dres.t = "exc"
       /\ dres.text = None
       /\ dres.args = din
       /\ StructuredUnset

\* C13's case: a line whose code is no number, and one that is not UTF-8,
\* each built into a fault with every attribute unset
C13_Witness ==
    /\ dres # Pending
    /\ dres.t = "exc"
    /\ dres.text = None
    /\ dres.args = din
    /\ \/ dlines = << << "x" >>, << "0" >>, << "p" >>, << "e" >>, << NL >> >>
       \/ dlines = << << "5" >>, << "0" >>, << "p" >>, << BadByte >>,
                      << NL >> >>

----------------------------------------------------------------------------
(* The frame decoder in front of the one-slot queue, whose Frame is taken *)
(* at any time or not at all                                              *)

\* one call of data_received with the next n bytes of the stream, the
\* queue being as the consumer left it
HandoffDeliver ==
    \E n \in 1..Len(drest) :
        LET data == SubSeq(drest, 1, n)
            r == data_received(dbuf, queue # << >>, data)
        IN  /\ drest' = SubSeq(drest, n + 1, Len(drest))
            /\ dbuf' = r.buf
            /\ queue' = queue \o r.put
            /\ demit' = demit \o r.put
            /\ dlast' = [ before |-> dbuf, data |-> data, put |-> r.put ]
            /\ dres' = [ t |-> "call", raised |-> r.raised ]
            /\ UNCHANGED << din, dlines >>
            /\ UNCHANGED << auto_reconnect, transport, status, host, locked,
                            waiters, conns, nconn, tasks, ntask, unconsumed,
                            statusBy, lastCall, qsrc >>

\* client.py 85, 102: a caller takes the Frame from the queue
HandoffTake ==
    /\ queue # << >>
    /\ queue' = << >>
    /\ UNCHANGED decVars
    /\ UNCHANGED << auto_reconnect, transport, status, host, locked,
                    waiters, conns, nconn, tasks, ntask, unconsumed,
                    statusBy, lastCall, qsrc >>

HandoffNext == HandoffDeliver \/ HandoffTake

SpecHandoff == DecInit /\ [][HandoffNext]_vars

----------------------------------------------------------------------------
(* Claims about the decoder and the queue (SpecHandoff) *)

\* a step that delivers bytes to the decoder, and the bytes it delivers
IsDeliverStep == drest' # drest

Delivered == SubSeq(drest, 1, Len(drest) - Len(drest'))

\* the delivery completes an error Frame / a Success Frame
CompletesError ==
    dbuf = << >> /\ Len(Delivered) >= 5
    /\ SubSeq(Delivered, 1, 5) = << "A", "C", "K", " ", "[" >>

CompletesSuccess ==
    LET b == dbuf \o Delivered
    IN  /\ ~CompletesError
        /\ \/ Len(b) >= 2 /\ b[1] = "O" /\ b[2] = "K" /\ b[Len(b)] = NL
           \/ Len(b) >= 3 /\ SubSeq(b, Len(b) - 2, Len(b)) = << "O", "K", NL >>

\* the Frame in the slot stays and the call raises
SlotKeptAndRaised == queue' = queue /\ dres'.raised

\* C15 as stated: when a Frame is completed while the queue holds one, the
\* Frame in the queue is not overwritten, data_received raises, and the
\* bytes of the new Frame stay in the decoder buffer (the error raised,
\* QueueFull, carries none).
C15_NothingDropped ==
    [][ (IsDeliverStep /\ queue # << >>
            /\ (CompletesError \/ CompletesSuccess))
        => /\ SlotKeptAndRaised
           /\ EndsWith(dbuf', Delivered) ]_vars

----------------------------------------------------------------------------
(* The client: its coroutines as tasks, run from one suspension point to   *)
(* the next.  The operators below act on a record S of the client's state  *)
(* and return the record after the code has run.                           *)

Hosts == { "a", "b" }

\* the operations modelled: stop stands for the @lock methods that send one
\* command; the others are the @lock_and_status methods
Ops == { "stop", "get_status", "toggle", "incr_volume" }

\* "state: play\nOK\n"
StatusPlay == << "s", "t", "a", "t", "e", ":", " ", "p", "l", "a", "y", NL,
                 "O", "K", NL >>

\* "state: play\nerror: OK\n": the beginning of a status response whose
\* error field reads 'OK'
StatusErrorOK == << "s", "t", "a", "t", "e", ":", " ", "p", "l", "a", "y", NL,
                    "e", "r", "r", "o", "r", ":", " ", "O", "K", NL >>

\* what the server may answer to a command line, as the deliveries made to
\* data_received: a Success response whole or in two pieces (one of them
\* cut after a line that ends in 'OK'), or an error
Responses(cmd) ==
    IF cmd = "status"
    THEN { << StatusPlay >>,
           << SubSeq(StatusPlay, 1, 12), OKLine >>,
           << StatusErrorOK, OKLine >>,
           << ACKLine >> }
    ELSE { << OKLine >>, << ACKLine >> }

\* what a server may send when a connection opens: its greeting, a greeting
\* without a version, or nothing
Greetings == { << Greeting >>, << BadGreeting >>, << >> }

CmdTask(op, pc, out) ==
    [ kind |-> "cmd", op |-> op, pc |-> pc, out |-> out, step |-> 0,
      host |-> "none", conn |-> 0 ]

ConnectTask(origin, pc, h) ==
    [ kind |-> "connect", op |-> origin, pc |-> pc, out |-> "", step |-> 0,
      host |-> h, conn |-> 0 ]

TheState ==
    [ transport |-> transport, status |-> status, statusBy |-> statusBy,
      host |-> host, locked |-> locked, waiters |-> waiters,
      queue |-> queue, conns |-> conns, tasks |-> tasks,
      unconsumed |-> unconsumed ]

Commit(S) ==
    \E R \in { S } :
        /\ transport' = R.transport
        /\ status' = R.status
        /\ statusBy' = R.statusBy
        /\ host' = R.host
        /\ locked' = R.locked
        /\ waiters' = R.waiters
        /\ queue' = R.queue
        /\ conns' = R.conns
        /\ tasks' = R.tasks
        /\ unconsumed' = R.unconsumed

SetTask(S, t, rec) == [ S EXCEPT !.tasks = [ S.tasks EXCEPT ![t] = rec ] ]

\* a release that leaves the lock with its holder
Release_KeepLock(S) == S

\* a release that wakes every waiter instead of the first one
Release_WakeAll(S) ==
    IF S.waiters = << >> THEN [ S EXCEPT !.locked = 0 ]
    ELSE [ S EXCEPT !.locked = Head(S.waiters),
                    !.waiters = << >>,
                    !.tasks = [ u \in DOMAIN S.tasks |->
                                  IF S.tasks[u].pc = "waitlock"
                                  THEN [ S.tasks[u] EXCEPT !.pc = "woken" ]
                                  ELSE S.tasks[u] ] ]

\* asyncio.Lock.release: the first waiter is woken and owns the lock when
\* it next runs; nobody can take the lock before it
Release(S) ==
    IF S.waiters = << >> THEN [ S EXCEPT !.locked = 0 ]
    ELSE LET w == Head(S.waiters)
         IN  [ S EXCEPT !.locked = w,
                        !.waiters = Tail(S.waiters),
                        !.tasks = [ S.tasks EXCEPT ![w].pc = "woken" ] ]

\* leaving `with self._lock` / `async with self._lock`, by return or raise
\* (a finished task keeps its outcome only)
Finish(S, t, out) ==
    Release([ S EXCEPT !.tasks = [ S.tasks EXCEPT
                ![t] = [ kind |-> S.tasks[t].kind, op |-> S.tasks[t].op,
                         pc |-> "done", out |-> out, step |-> 0,
                         host |-> "none", conn |-> 0 ] ] ])

\* an acquire that suspends the caller without queueing it on the lock
Acquire_NotQueued(S, t) ==
    IF S.locked = 0 THEN [ S EXCEPT !.locked = t ]
    ELSE [ S EXCEPT !.tasks = [ S.tasks EXCEPT ![t].pc = "waitlock" ] ]

\* an acquire that takes the lock whoever holds it
Acquire_Immediately(S, t) == [ S EXCEPT !.locked = t ]

\* helpers.py 20 / client.py 71: take the lock or queue on it
Acquire(S, t) ==
    IF S.locked = 0 THEN [ S EXCEPT !.locked = t ]
    ELSE [ S EXCEPT !.waiters = Append(S.waiters, t),
                    !.tasks = [ S.tasks EXCEPT ![t].pc = "waitlock" ] ]

\* the first command line of an operation, and the one that follows the
\* status round trip ("" when none does)
FirstCommand(op) == IF op = "stop" THEN "stop" ELSE "status"

\* client.py 169-174: toggle's command for the cached state
ToggleCommand(st) ==
    IF st["state"] = StrV(<< "p", "l", "a", "y" >>) THEN "pause 1"
    ELSE IF st["state"] = StrV(<< "p", "a", "u", "s", "e" >>) THEN "pause 0"
    ELSE IF st["state"] = StrV(<< "s", "t", "o", "p" >>) THEN "play 1"
    ELSE ""

\* transport.write(line): the server of an open connection gets the line
WriteLine(S, t, cmd) ==
    LET c == S.transport
        W == [ S EXCEPT !.conns = [ S.conns EXCEPT
                                      ![c].by = t,
                                      ![c].nw = S.conns[c].nw + 1 ] ]
    IN  IF S.conns[c].open
        THEN [ W EXCEPT !.conns = [ W.conns EXCEPT ![c].pend =
                                      Append(S.conns[c].pend, cmd) ] ]
        ELSE W

RECURSIVE SendCommand(_, _, _)
RECURSIVE AfterFrame(_, _, _)

\* client.py 96-102: _send_command up to `await self._received_data.get()`,
\* which returns at once when the queue holds a Frame
SendCommand(S, t, cmd) ==
    IF S.transport = 0
    THEN Finish(S, t, "AttributeError")
    ELSE LET W == [ WriteLine(S, t, cmd) EXCEPT
                      !.unconsumed = S.unconsumed + 1,
                      !.tasks = [ S.tasks EXCEPT
                                    ![t].pc = "get",
                                    ![t].conn = S.transport,
                                    ![t].step = S.tasks[t].step + 1 ] ]
         IN  IF W.queue = << >> THEN W
             ELSE AfterFrame([ W EXCEPT !.queue = << >>, !.unconsumed = 0 ],
                             t, Head(W.queue))

\* client.py 104-107, then the rest of the operation: helpers.py 35-41
\* (lock_and_status caches the Status, then runs the method) and the
\* method's own code
AfterFrame(S, t, item) ==
  The({
    LET tk == S.tasks[t]
        C == [ S EXCEPT !.status = st.st, !.statusBy = t ]
    IN  IF item.kind = "exc" THEN Finish(S, t, "ServerError")
        ELSE IF tk.op = "stop" \/ tk.step = 2 THEN Finish(S, t, "ok")
        ELSE IF ~st.ok THEN Finish(S, t, st.err)
        ELSE IF tk.op = "get_status" THEN Finish(C, t, "ok")
        ELSE IF tk.op = "incr_volume" THEN Finish(C, t, "TypeError")
        ELSE IF ToggleCommand(st.st) = "" THEN Finish(C, t, "ok")
        ELSE SendCommand(C, t, ToggleCommand(st.st))
    : st \in { status_from_raw(item.data) } })

\* client.py 85-94: the greeting taken from the queue
AfterGreeting(S, t, item) ==
    LET v == parse_welcome(item)
    IN  Finish(S, t, IF v.ok THEN "ok" ELSE v.err)

\* client.py 75-80: connect, holding the lock, up to create_connection
ConnectBody(S, t) ==
    [ S EXCEPT !.host = S.tasks[t].host,
               !.tasks = [ S.tasks EXCEPT ![t].pc = "connecting" ] ]

\* what a task does once it owns the lock
Locked(S, t) ==
    IF S.tasks[t].kind = "cmd"
    THEN SendCommand(S, t, FirstCommand(S.tasks[t].op))
    ELSE ConnectBody(S, t)

\* `with (yield from self._lock)` / `async with self._lock`: the task goes
\* on at once when the lock is free, and is suspended otherwise
Enter(S, t) ==
    LET A == Acquire(S, t)
    IN  IF A.tasks[t].pc = "waitlock" THEN A ELSE Locked(A, t)


----------------------------------------------------------------------------
(* The client's steps *)

Init == ClientInit /\ DecOff

TaskIds == 1..ntask
ConnIds == 1..nconn

\* helpers.py 16-18 and 30-32: the check made before the lock is taken
ConnectionClosed == transport = 0

\* a caller invokes a command method: helpers.py 12-23 (lock) or 26-43
\* (lock_and_status), run up to its first suspension
CmdCall(op) ==
    /\ ntask < MaxTasks
    /\ LET t == ntask + 1
           S0 == [ TheState EXCEPT
                     !.tasks = Append(tasks, CmdTask(op, "start", "")) ]
       IN  IF ConnectionClosed
           THEN Commit(SetTask(S0, t, CmdTask(op, "done", "closed")))
           ELSE Commit(Enter(S0, t))
    /\ ntask' = ntask + 1
    /\ UNCHANGED << auto_reconnect, nconn, lastCall, qsrc >>
    /\ UNCHANGED decVars

\* a caller invokes connect(h): client.py 59-80, up to its first suspension
ConnectCall(h) ==
    /\ ntask < MaxTasks
    /\ LET t == ntask + 1
           S0 == [ TheState EXCEPT
                     !.tasks = Append(tasks, ConnectTask("call", "start", h)) ]
       IN  Commit(Enter(S0, t))
    /\ ntask' = ntask + 1
    /\ lastCall' = h
    /\ UNCHANGED << auto_reconnect, nconn, qsrc >>
    /\ UNCHANGED decVars

\* a task that was queued on the lock runs again, owning the lock
Woken(t) ==
    /\ t \in TaskIds
    /\ tasks[t].pc = "woken"
    /\ Commit(Locked(TheState, t))
    /\ UNCHANGED << auto_reconnect, nconn, ntask, lastCall, qsrc >>
    /\ UNCHANGED decVars

\* a task suspended in _received_data.get() runs again with the Frame
GotFrame(t) ==
    /\ t \in TaskIds
    /\ tasks[t].pc = "get"
    /\ queue # << >>
    /\ LET S == [ TheState EXCEPT !.queue = << >>, !.unconsumed = 0 ]
       IN  IF tasks[t].kind = "cmd"
           THEN Commit(AfterFrame(S, t, Head(queue)))
           ELSE Commit(AfterGreeting(S, t, Head(queue)))
    /\ UNCHANGED << auto_reconnect, nconn, ntask, lastCall, qsrc >>
    /\ UNCHANGED decVars

\* client.py 55-57: the _reconnect coroutine runs and schedules
\* connect(self._host, self._port, self._loop)
ReconnectHost == host

Reconnect(t) ==
    /\ t \in TaskIds
    /\ tasks[t].pc = "scheduled"
    /\ tasks' = [ tasks EXCEPT ![t].pc = "start", ![t].host = ReconnectHost ]
    /\ UNCHANGED << auto_reconnect, transport, status, host, locked, waiters,
                    queue, conns, nconn, ntask, unconsumed, statusBy,
                    lastCall, qsrc >>
    /\ UNCHANGED decVars

\* the connect coroutine scheduled by _reconnect starts: client.py 71-80
ConnectStart(t) ==
    /\ t \in TaskIds
    /\ tasks[t].pc = "start"
    /\ Commit(Enter(TheState, t))
    /\ UNCHANGED << auto_reconnect, nconn, ntask, lastCall, qsrc >>
    /\ UNCHANGED decVars

\* client.py 80: create_connection succeeds; the Protocol exists and may be
\* called before connect runs again.  The server chooses what it sends.
TcpEstablished(t) ==
    /\ t \in TaskIds
    /\ tasks[t].pc = "connecting"
    /\ nconn < MaxConns
    /\ \E g \in Greetings :
          conns' = Append(conns, [ open |-> TRUE, buf |-> << >>,
                                   net |-> g, pend |-> << >>,
                                   by |-> t, nw |-> 0, na |-> 0,
                                   cut |-> FALSE, greet |-> g # << >> ])
    /\ nconn' = nconn + 1
    /\ tasks' = [ tasks EXCEPT ![t].pc = "established",
                               ![t].conn = nconn + 1 ]
    /\ UNCHANGED << auto_reconnect, transport, status, host, locked, waiters,
                    queue, ntask, unconsumed, statusBy, lastCall, qsrc >>
    /\ UNCHANGED decVars

\* client.py 80: create_connection raises (connection refused)
TcpRefused(t) ==
    /\ t \in TaskIds
    /\ tasks[t].pc = "connecting"
    /\ Commit(Finish(TheState, t, "ConnectionRefusedError"))
    /\ UNCHANGED << auto_reconnect, nconn, ntask, lastCall, qsrc >>
    /\ UNCHANGED decVars

\* a connect that returns without waiting for the greeting
Connected_NoGreeting(t) ==
    /\ t \in TaskIds
    /\ tasks[t].pc = "established"
    /\ Commit(Finish([ TheState EXCEPT !.transport = tasks[t].conn ], t, "ok"))
    /\ UNCHANGED << auto_reconnect, nconn, ntask, lastCall, qsrc >>
    /\ UNCHANGED decVars

\* client.py 81-85: connect runs again, stores the transport and waits for
\* the greeting, which it takes at once when the queue holds a Frame
Connected(t) ==
    /\ t \in TaskIds
    /\ tasks[t].pc = "established"
    /\ LET S == [ TheState EXCEPT
                    !.transport = tasks[t].conn,
                    !.tasks = [ tasks EXCEPT ![t].pc = "get" ] ]
       IN  IF queue = << >> THEN Commit(S)
           ELSE Commit(AfterGreeting(
                    [ S EXCEPT !.queue = << >>, !.unconsumed = 0 ],
                    t, Head(queue)))
    /\ UNCHANGED << auto_reconnect, nconn, ntask, lastCall, qsrc >>
    /\ UNCHANGED decVars

\* protocol.py 27-31: a Frame is emitted although bytes of the same
\* response are still to come
EarlyFrame(put, rest) == put # << >> /\ rest # << >>

\* protocol.py 19-32: data_received(data) on connection c
Receive(c, data, rest, pend, na) ==
    LET r == data_received(conns[c].buf, queue # << >>, data)
    IN  /\ conns' = [ conns EXCEPT ![c].buf = r.buf, ![c].net = rest,
                                   ![c].pend = pend, ![c].na = na,
                                   ![c].cut = conns[c].cut
                                                \/ EarlyFrame(r.put, rest) ]
        /\ queue' = queue \o r.put
        /\ qsrc' = IF r.put = << >> THEN qsrc
                   ELSE [ conn |-> c, line |-> na ]
        /\ UNCHANGED << auto_reconnect, transport, status, host, locked,
                        waiters, nconn, tasks, ntask, unconsumed, statusBy,
                        lastCall >>
        /\ UNCHANGED decVars

\* the next piece of what the server is sending arrives
Deliver(c) ==
    /\ c \in ConnIds
    /\ conns[c].open
    /\ conns[c].net # << >>
    /\ Receive(c, Head(conns[c].net), Tail(conns[c].net), conns[c].pend,
               conns[c].na)

\* the server answers the oldest command line it has not answered; the
\* first piece of the answer arrives
ServerAnswer(c) ==
    /\ c \in ConnIds
    /\ conns[c].open
    /\ conns[c].net = << >>
    /\ conns[c].pend # << >>
    /\ \E r \in Responses(Head(conns[c].pend)) :
          Receive(c, Head(r), Tail(r), Tail(conns[c].pend),
                  conns[c].na + 1)

\* a connection_lost that schedules the reconnect twice
ReconnectTasks_Twice ==
    << ConnectTask("reconnect", "scheduled", "none"),
       ConnectTask("reconnect", "scheduled", "none") >>

\* protocol.py 41-43: the reconnect scheduled by connection_lost
ReconnectTasks ==
    IF auto_reconnect
    THEN << ConnectTask("reconnect", "scheduled", "none") >>
    ELSE << >>

\* a connection_lost that also frees the lock
ConnectionLost_FreesLock(c) ==
    /\ c \in ConnIds
    /\ conns[c].open
    /\ ntask + Len(ReconnectTasks) <= MaxTasks
    /\ conns' = [ conns EXCEPT ![c].open = FALSE, ![c].net = << >>,
                               ![c].pend = << >> ]
    /\ transport' = 0
    /\ status' = None
    /\ statusBy' = 0
    /\ locked' = 0
    /\ tasks' = tasks \o ReconnectTasks
    /\ ntask' = ntask + Len(ReconnectTasks)
    /\ UNCHANGED << auto_reconnect, host, waiters, queue, nconn,
                    unconsumed, lastCall, qsrc >>
    /\ UNCHANGED decVars

\* protocol.py 34-43 and client.py 50-53: connection c is lost
ConnectionLost(c) ==
    /\ c \in ConnIds
    /\ conns[c].open
    /\ ntask + Len(ReconnectTasks) <= MaxTasks
    /\ conns' = [ conns EXCEPT ![c].open = FALSE, ![c].net = << >>,
                               ![c].pend = << >> ]
    /\ transport' = 0
    /\ status' = None
    /\ statusBy' = 0
    /\ tasks' = tasks \o ReconnectTasks
    /\ ntask' = ntask + Len(ReconnectTasks)
    /\ UNCHANGED << auto_reconnect, host, locked, waiters, queue, nconn,
                    unconsumed, lastCall, qsrc >>
    /\ UNCHANGED decVars

Next ==
    \/ \E op \in Ops : CmdCall(op)
    \/ \E h \in Hosts : ConnectCall(h)
    \/ \E t \in 1..MaxTasks :
          \/ Woken(t)
          \/ GotFrame(t)
          \/ Reconnect(t)
          \/ ConnectStart(t)
          \/ TcpEstablished(t)
          \/ TcpRefused(t)
          \/ Connected(t)
    \/ \E c \in 1..MaxConns :
          \/ Deliver(c)
          \/ ServerAnswer(c)
          \/ ConnectionLost(c)

Spec == Init /\ [][Next]_vars


----------------------------------------------------------------------------
(* Claims about the command pipeline (Spec) *)

IsCmd(t) == tasks[t].kind = "cmd"
IsConnect(t) == tasks[t].kind = "connect"
IsReconnect(t) == tasks[t].kind = "connect" /\ tasks[t].op = "reconnect"

\* connection_lost events so far: a connection is lost once
NLost == Cardinality({ c \in ConnIds : ~conns[c].open })

\* no Frame can reach the queue any more: it is empty, and no open
\* connection has a command to answer or bytes on their way
NoFrameToCome ==
    /\ queue = << >>
    /\ \A c \in ConnIds :
          conns[c].open => conns[c].net = << >> /\ conns[c].pend = << >>

\* C1: at no time have two command lines been written without a Frame
\* being taken from the queue between them.
C1_SingleFlight == unconsumed <= 1

\* C1's case: two commands issued concurrently, the first one's line
\* written and its Frame awaited, the second one queued on the lock
C1_Witness ==
    \E t, u \in TaskIds :
        /\ IsCmd(t) /\ IsCmd(u) /\ t < u
        /\ tasks[t].pc = "get" /\ tasks[t].step = 1
        /\ tasks[u].pc = "waitlock"
        /\ unconsumed = 1

\* C4: a command that finds no transport when it is about to write fails
\* with the connection-closed error ("closed"), whether it finds out
\* before taking the lock or after having waited for it.
C4_FailsClosed ==
    \A t \in TaskIds :
        (IsCmd(t) /\ tasks[t].pc = "done"
            /\ tasks[t].out \in { "closed", "AttributeError" })
        => tasks[t].out = "closed"

\* C5: an error reply delivered on an empty buffer leaves the buffer empty
\* and becomes the Frame in the queue; the command that takes an error
\* Frame fails with the server error; and a task that has ended, however
\* it ended, neither holds the lock nor waits for it.
C5_ReleasedWhenDone ==
    \A t \in TaskIds :
        tasks[t].pc = "done" =>
            /\ locked # t
            /\ \A i \in 1..Len(waiters) : waiters[i] # t

C5_ErrorReplyStep ==
    /\ \A c \in ConnIds :
          ( /\ c \in DOMAIN conns'
            /\ conns[c].net # << >>
            /\ conns'[c].net = Tail(conns[c].net)
            /\ conns[c].buf = << >>
            /\ queue = << >>
            /\ Len(Head(conns[c].net)) >= 5
            /\ SubSeq(Head(conns[c].net), 1, 5) = << "A", "C", "K", " ", "[" >> )
          => /\ conns'[c].buf = << >>
             /\ queue' = << [ kind |-> "exc", data |-> Head(conns[c].net) ] >>
    /\ \A t \in TaskIds :
          ( /\ IsCmd(t)
            /\ tasks[t].pc = "get"
            /\ tasks'[t].pc # "get"
            /\ queue # << >>
            /\ Head(queue).kind = "exc" )
          => /\ tasks'[t].pc = "done"
             /\ tasks'[t].out = "ServerError"
             /\ locked' # t

C6_OnePerLoss ==
    Cardinality({ t \in TaskIds : IsReconnect(t) })
        = IF auto_reconnect THEN NLost ELSE 0

\* C6, without auto_reconnect: a command invoked after a loss (and before a
\* connect call stores a new transport) ends at once with the
\* connection-closed error, and nothing is written
C6_FailsAfterLoss ==
    (~auto_reconnect /\ NLost > 0 /\ transport = 0 /\ ntask' = ntask + 1
        /\ tasks'[ntask'].kind = "cmd")
    => /\ tasks'[ntask'].pc = "done"
       /\ tasks'[ntask'].out = "closed"
       /\ conns' = conns
       /\ unconsumed' = unconsumed

\* C6 as stated: the reconnect uses the host of the last connect call
C6_HostOfLastCall ==
    \A t \in TaskIds :
        (tasks[t].pc = "scheduled" /\ tasks'[t].pc # "scheduled")
        => tasks'[t].host = lastCall

\* C6, amended: the reconnect uses the host stored on the client, which is
\* that of the last connect call that has taken the lock (a connect call
\* still queued on the lock has not stored its host yet)
C6_HostStored ==
    \A t \in TaskIds :
        (tasks[t].pc = "scheduled" /\ tasks'[t].pc # "scheduled")
        => /\ tasks'[t].host = host
           /\ tasks'[t].host \in Hosts

\* C6 as stated: with auto_reconnect each loss schedules exactly one
\* reconnect, with the host of the last connect call, and a failed attempt
\* is not retried; without it no reconnect is scheduled and later commands
\* fail with the connection-closed error.
C6_ReconnectLastCall ==
    [](C6_OnePerLoss) /\ [][C6_FailsAfterLoss /\ C6_HostOfLastCall]_vars

\* C6, amended: the same, the host being the one stored on the client by
\* the last connect call that has taken the lock.
C6_Reconnect ==
    [](C6_OnePerLoss) /\ [][C6_FailsAfterLoss /\ C6_HostStored]_vars

\* C6's case: a loss with auto_reconnect, its one attempt failed, and no
\* other attempt made
C6_Witness ==
    /\ auto_reconnect
    /\ NLost = 1
    /\ \E t \in TaskIds :
          /\ IsReconnect(t)
          /\ tasks[t].pc = "done"
          /\ tasks[t].out = "ConnectionRefusedError"
    /\ ntask < MaxTasks

\* C7: after a loss with auto_reconnect the client gets connected again.
\* Stated on the states a run can end in: the connect started by the
\* reconnect is never left queued on a lock whose holder waits for a Frame
\* that cannot come.
C7_ReconnectNotBlocked ==
    \A t \in TaskIds :
        ( /\ IsReconnect(t) /\ tasks[t].pc = "waitlock"
          /\ \A u \in TaskIds :
                (IsConnect(u) /\ tasks[u].pc = "done") => tasks[u].out = "ok" )
        => ~( /\ locked \in TaskIds
              /\ IsCmd(locked)
              /\ tasks[locked].pc = "get"
              /\ NoFrameToCome )

\* C8: connect ends in every case.  Stated on the states a run can end in:
\* a connect is never left waiting for a greeting that cannot come.
C8_ConnectEnds ==
    \A t \in TaskIds :
        (IsConnect(t) /\ tasks[t].pc = "get") => ~NoFrameToCome

\* C9: while a status-refreshing operation is between its 'status' command
\* and its end, it holds the lock, the cached status (once cached) is its
\* own or has been cleared by a connection loss, and no other task writes
\* a command line or caches a status.
InStatusSection(t) ==
    IsCmd(t) /\ tasks[t].op # "stop" /\ tasks[t].pc = "get"

C9_HoldsLock ==
    \A t \in TaskIds :
        InStatusSection(t) =>
            /\ locked = t
            /\ tasks[t].step = 2 => (statusBy = t \/ status = None)

C9_NoOtherWrites ==
    \A t \in TaskIds :
        InStatusSection(t) =>
            /\ \A u \in TaskIds \ { t } : tasks'[u].step <= tasks[u].step
            /\ \A u \in (1..ntask') \ TaskIds : tasks'[u].step = 0
            /\ statusBy' \in { statusBy, t, 0 }
            /\ unconsumed' <= 1

IsLossStep == \E c \in ConnIds : conns[c].open /\ ~conns'[c].open

\* a task suspended in self._received_data.get()
AwaitsFrame(t) == tasks[t].pc = "get"

\* the loss handler clears transport and status and leaves the queue, the
\* lock, its waiters and every suspended caller as they are
C14_LossStep ==
    IsLossStep =>
        /\ transport' = 0 /\ status' = None
        /\ queue' = queue
        /\ locked' = locked
        /\ waiters' = waiters
        /\ \A t \in TaskIds : tasks'[t] = tasks[t]

\* a suspended caller is resumed only by taking a Frame from the queue
C14_ResumedByFrame ==
    \A t \in TaskIds :
        (AwaitsFrame(t) /\ tasks'[t] # tasks[t])
        => queue # << >> /\ queue' = << >>

\* a caller suspended for its Frame holds the lock
C14_SuspendedHoldsLock ==
    \A t \in TaskIds : AwaitsFrame(t) => locked = t

\* C14: a connection loss does not resolve a caller waiting for its Frame:
\* the loss handler leaves the queue and the lock unchanged (it clears the
\* transport and the status), and the caller stays suspended, holding the
\* lock, until a Frame is put into the queue.
C14_LossKeepsSuspended ==
    [](C14_SuspendedHoldsLock) /\ [][C14_LossStep /\ C14_ResumedByFrame]_vars

\* C14's case: a command waits for its Frame, holding the lock, after the
\* connection it wrote to was lost
C14_Witness ==
    \E t \in TaskIds :
        /\ IsCmd(t) /\ AwaitsFrame(t)
        /\ locked = t
        /\ transport = 0
        /\ \A c \in ConnIds : ~conns[c].open
        /\ queue = << >>

\* a step in which the Frame in the queue is taken
IsTakeStep == queue # << >> /\ queue' = << >>

\* task t was suspended for a Frame (a command after its write, a connect
\* after create_connection) and runs in this step
Resumed(t) ==
    /\ tasks[t].pc \in { "get", "established" }
    /\ tasks'[t] # tasks[t]

\* the Frame in the queue is the one task t waits for: it was put by the
\* connection t wrote to (or established), t is the last one to have
\* written on that connection, and the Frame answers the last line written
\* on it (the greeting when none was)
FrameIsFor(t) ==
    /\ qsrc.conn = tasks[t].conn
    /\ qsrc.conn \in ConnIds
    /\ conns[qsrc.conn].by = t
    /\ qsrc.line = conns[qsrc.conn].nw

\* the step hands the Frame to exactly one caller, the one it answers
TakenByItsCaller ==
    /\ \E t \in TaskIds : Resumed(t) /\ FrameIsFor(t)
    /\ Cardinality({ t \in TaskIds : Resumed(t) }) = 1

\* no response has been emitted as more than one Frame
NoResponseCut == \A c \in ConnIds : ~conns[c].cut

\* C16 as stated: a Frame is taken by one caller only, the one whose
\* command line was the last written on the connection that produced the
\* Frame; no caller takes a Frame that answers another command or comes from
\* another connection than the one it wrote to.
C16_FrameToItsCaller == [][ IsTakeStep => TakenByItsCaller ]_vars

\* C16, amended: as long as no response has been cut into two Frames by a
\* delivery that ends in 'OK\n' before the response is complete, a Frame is
\* taken by one caller only, the one whose command line was the last
\* written on the connection that produced the Frame.
C16_WholeResponses ==
    [][ IsTakeStep /\ NoResponseCut => TakenByItsCaller ]_vars

\* C16's case: after a loss and a second connect, a command has taken the
\* Frame of the second connection
C16_Witness ==
    \E t \in TaskIds :
        /\ IsCmd(t) /\ tasks[t].pc = "done" /\ tasks[t].out = "ok"
        /\ qsrc.conn = 2
        /\ qsrc.line = 1
        /\ conns[2].by = t
        /\ ~conns[1].open
        /\ queue = << >>
        /\ NoResponseCut

\* the step in which connect task t ends with an error
ConnectFails(t) ==
    /\ IsConnect(t)
    /\ tasks[t].pc # "done"
    /\ tasks'[t].pc = "done"
    /\ tasks'[t].out # "ok"

\* C17: whenever a connect ends with an error (connection refused, or a
\* malformed greeting), the client holds no transport afterwards, so that a
\* following command fails with the connection-closed error instead of
\* being written.
C17_FailedConnectDisconnects ==
    [][ \A t \in TaskIds : ConnectFails(t) => transport' = 0 ]_vars

\* the step is connection_lost of connection c
IsLossOf(c) == conns[c].open /\ ~conns'[c].open

\* every connect made so far has returned normally
ConnectsSucceeded ==
    \A t \in TaskIds : IsConnect(t) => tasks[t].pc = "done" /\ tasks[t].out = "ok"

\* C18: after connects that all succeeded, while the client refers to the
\* most recently established connection and that connection is open, the
\* loss of an older connection, superseded by a later connect, neither
\* clears the current transport nor starts a reconnect.
C18_SupersededLoss ==
    [][ \A c \in ConnIds :
          /\ IsLossOf(c)
          /\ ConnectsSucceeded
          /\ transport = nconn
          /\ c < transport
          /\ conns[transport].open
          => transport' = transport /\ tasks' = tasks ]_vars

\* the serializer is free: no command and no connect is in progress
SerializerFree == locked = 0

\* C19 as stated: with a server that sends one greeting per connection and
\* one response per command line, whenever the serializer is free the
\* handoff channel is empty.
C19_Quiescent == SerializerFree => queue = << >>

\* C19, amended: as long as no response has been cut into two Frames,
\* whenever the serializer is free the handoff channel is empty and no
\* Frame is on its way to it, so that the next command to write its line
\* waits for a Frame produced after that write.
C19_QuiescentWhole == SerializerFree /\ NoResponseCut => NoFrameToCome

\* C19's case: two commands have made their round trips one after the
\* other on a connection whose responses came whole, and the serializer is
\* free again
C19_Witness ==
    /\ SerializerFree
    /\ NoResponseCut
    /\ transport # 0
    /\ conns[transport].nw >= 2
    /\ \E t, u \in TaskIds :
          /\ t # u
          /\ IsCmd(t) /\ tasks[t].pc = "done" /\ tasks[t].out = "ok"
          /\ IsCmd(u) /\ tasks[u].pc = "done" /\ tasks[u].out = "ok"

----------------------------------------------------------------------------
(* Progress of the command pipeline (SpecLive): no connection is lost, the
   event loop runs every callback that is ready, every TCP connect
   completes or is refused, and the server sends what it has to send *)

\* what happens without a new call being made: the event loop resumes a
\* task whose lock or Frame is ready, create_connection completes one way
\* or the other, the server answers a command line, its bytes arrive
Run ==
    \/ \E t \in 1..MaxTasks :
          \/ Woken(t)
          \/ GotFrame(t)
          \/ TcpEstablished(t)
          \/ TcpRefused(t)
          \/ Connected(t)
    \/ \E c \in 1..MaxConns :
          \/ Deliver(c)
          \/ ServerAnswer(c)

LiveNext ==
    \/ \E op \in Ops : CmdCall(op)
    \/ \E h \in Hosts : ConnectCall(h)
    \/ Run

\* callers need not call; whatever else is ready to happen does happen
SpecLive == Init /\ [][LiveNext]_vars /\ WF_vars(Run)

\* task t exists and is a command that has not ended
CommandPending(t) == t \in TaskIds /\ IsCmd(t) /\ tasks[t].pc # "done"

\* task t is suspended on the lock
WaitsForLock(t) == t \in TaskIds /\ tasks[t].pc = "waitlock"

\* the server has sent no greeting on some connection
NotGreeted == \E c \in ConnIds : ~conns[c].greet

\* no command is pending and no caller waits for the lock.  A task that
\* has ended stays ended, a task leaves the lock's queue only by being
\* handed the lock (Release), and the callers are finitely many: every
\* command ends and every waiter acquires the lock if and only if, from
\* some time on, all tasks are settled.
Settled == \A t \in TaskIds : ~CommandPending(t) /\ ~WaitsForLock(t)

============================================================================
